---- MODULE Spec2Model ----
(***************************************************************************)
(* drstrace: the argument-decoding and trace-formatting pipeline of the    *)
(* system call tracer (drstrace/drstrace.c).                               *)
(*                                                                         *)
(* Spec    one thread; every argument record the introspection service can *)
(*         hand to drsys_iter_arg_cb, the callback taken as one step.      *)
(* SpecMT  several threads writing to the shared sink, one dr_fprintf      *)
(*         (OUTPUT) call per step.                                         *)
(***************************************************************************)
EXTENDS Integers, Sequences, FiniteSets

VARIABLES
  pc,        \* where the thread is: "idle", "iter" (inside drsys_iterate_args),
             \* "cb" (the callback has just run), "in_syscall", "aborted", "faulted"
  pre,       \* the phase: TRUE from event_pre_syscall on, FALSE from event_post_syscall on
  lookup,    \* what the lookups of the current handler answered
  known,     \* the answer of drsys_syscall_is_known
  hdr,       \* the header or outcome line of the current phase
  arg,       \* the record the callback was last called with
  rendered,  \* whether print_arg was called for arg
  line,      \* the OUTPUT calls made for arg
  reads,     \* the accesses to target memory made for arg
  nvisited,  \* records delivered so far in this iteration
  msg,       \* the diagnostic of the failed ASSERT
  res,       \* what drsys_iterate_args returned
  tstep, tpre, tn, sink   \* the threads of SpecMT and the sink they share

vars == <<pc, pre, lookup, known, hdr, arg, rendered, line, reads, nvisited, msg, res,
          tstep, tpre, tn, sink>>

seqvars == <<pc, pre, lookup, known, hdr, arg, rendered, line, reads, nvisited, msg, res>>

mtvars == <<tstep, tpre, tn, sink>>

-----------------------------------------------------------------------------
(* Bounds *)

\* records delivered to the callback during one drsys_iterate_args
MaxArgs == 2

\* largest declared size of an argument, in bytes
MaxSize == 5

\* threads of the traced process
NThreads == 2

\* number of dr_fprintf calls recorded in the shared sink
MaxSink == 7

-----------------------------------------------------------------------------
(* The argument record (drsys_arg_t) as this file reads it *)

\* sizeof(ptr_uint_t) of the 32-bit build: the width of the buffer deref
sizeof_deref == 4

NULL == "NULL"

DRSYS_PARAM_IN == "DRSYS_PARAM_IN"

DRSYS_PARAM_OUT == "DRSYS_PARAM_OUT"

DRSYS_PARAM_INLINED == "DRSYS_PARAM_INLINED"

DRSYS_PARAM_RETVAL == "DRSYS_PARAM_RETVAL"

Flags == {DRSYS_PARAM_IN, DRSYS_PARAM_OUT, DRSYS_PARAM_INLINED, DRSYS_PARAM_RETVAL}

\* the types print_simple_value prints with leading zeroes (PFX)
SimplePtrTypes == {"DRSYS_TYPE_VOID", "DRSYS_TYPE_POINTER"}

\* the types print_simple_value prints without leading zeroes (PIFX)
SimpleIntTypes == {"DRSYS_TYPE_BOOL", "DRSYS_TYPE_INT", "DRSYS_TYPE_SIGNED_INT",
                   "DRSYS_TYPE_UNSIGNED_INT", "DRSYS_TYPE_HANDLE",
                   "DRSYS_TYPE_NTSTATUS", "DRSYS_TYPE_ATOM"}

SimpleTypes == SimplePtrTypes \cup SimpleIntTypes

\* the structured types of the inner switch
StructTypes == {"DRSYS_TYPE_UNICODE_STRING", "DRSYS_TYPE_OBJECT_ATTRIBUTES",
                "DRSYS_TYPE_IO_STATUS_BLOCK", "DRSYS_TYPE_LARGE_INTEGER"}

\* a type the inner switch has no case for
OtherTypes == {"DRSYS_TYPE_UNKNOWN"}

Types == SimpleTypes \cup StructTypes \cup OtherTypes

\* raw machine words: 0 is the null address, 1 a mapped address, 2 an
\* unmapped one (inlined records carry the same words as plain values)
Values == {0, 1, 2}

Mapped == {1}

Sizes == {s \in 1..MaxSize : s = 1 \/ s >= sizeof_deref}

Names == {NULL, "Handle"}

TypeNames == {NULL, "HANDLE"}

\* the word stored at a mapped address; it does not fit one byte
MemWord(a) == 260 + a

\* the records the service delivers: the return-value record has ordinal -1,
\* a parameter its ordinal; the mode says at least one of input, output,
\* inlined, return value; an invalid record carries no names
ArgRecords == {a \in [ordinal : {-1, 0}, type : Types, mode : SUBSET Flags,
                      value : Values, size : Sizes, arg_name : Names,
                      type_name : TypeNames, valid : BOOLEAN] :
                 /\ (a.ordinal = -1) = (DRSYS_PARAM_RETVAL \in a.mode)
                 /\ a.mode # {}
                 /\ ~a.valid => (a.arg_name = NULL /\ a.type_name = NULL)}

NoArg == [ordinal |-> 0, type |-> "none", mode |-> {}, value |-> 0, size |-> 1,
          arg_name |-> NULL, type_name |-> NULL, valid |-> TRUE, pre |-> TRUE]

TEST(flag, mode) == flag \in mode

TESTANY(flags, mode) == flags \cap mode # {}

-----------------------------------------------------------------------------
(* What a piece of the decoder does: the OUTPUT calls it makes (out), the  *)
(* accesses to target memory it makes (reads), and how it ends: "ok", or   *)
(* "abort" (a failed ASSERT calls dr_abort), or "fault" (a direct          *)
(* dereference of an unmapped address).                                    *)

Tok(k, v) == [k |-> k, v |-> v]

SafeRead(a, n) == [kind |-> "safe", addr |-> a, len |-> n]

DirectRead(a) == [kind |-> "direct", addr |-> a, len |-> 0]

Emit(toks) == [out |-> toks, reads |-> <<>>, end |-> "ok", msg |-> ""]

\* ASSERT(cond, msg): nothing when cond holds, else the diagnostic and dr_abort()
ASSERT(cond, m) ==
  [out |-> <<>>, reads |-> <<>>, end |-> IF cond THEN "ok" ELSE "abort",
   msg |-> IF cond THEN "" ELSE m]

\* a direct dereference of address a, then the OUTPUT of what was read
Deref(a, toks) ==
  [out |-> IF a \in Mapped THEN toks ELSE <<>>, reads |-> <<DirectRead(a)>>,
   end |-> IF a \in Mapped THEN "ok" ELSE "fault", msg |-> ""]

\* statement e1 followed by statement e2: e2 runs only if e1 returned
Then(e1, e2) ==
  IF e1.end # "ok" THEN e1
  ELSE [out |-> e1.out \o e2.out, reads |-> e1.reads \o e2.reads,
        end |-> e2.end, msg |-> e2.msg]

\* print_unicode_string(us); m is the pointer field found in target memory
\* (us->Buffer), which "%.*S" reads the characters from
print_unicode_string(us, m) ==
  IF us = 0 THEN Emit(<<Tok("<null>", 0)>>)
  ELSE IF m = 0 THEN Deref(us, <<Tok("unicode_string", "<null>")>>)
  ELSE Then(Deref(us, <<>>), Deref(m, <<Tok("unicode_string", "chars")>>))

\* bool pointer = !TEST(DRSYS_PARAM_INLINED, arg->mode)
pointer(a) == ~TEST(DRSYS_PARAM_INLINED, a.mode)

legible_always(a) == TRUE

\* the pointer is legible in this phase: input before the call, output after
legible(a) ==
  \/ (a.pre /\ TEST(DRSYS_PARAM_IN, a.mode))
  \/ (~a.pre /\ TEST(DRSYS_PARAM_OUT, a.mode))

fits_any(a) == TRUE

\* the condition of ASSERT(arg->size <= sizeof(deref), ...)
fits(a) == a.size <= sizeof_deref

\* little-endian read of n bytes of the word at address a into deref = 0:
\* the low n bytes of the word, the whole word from n = sizeof(deref) on
ReadWord(a, n) == IF n >= sizeof_deref THEN MemWord(a) ELSE MemWord(a) % (256 ^ n)

print_simple_value(a, leading_zeroes) ==
  Then(Emit(<<Tok(IF pointer(a) \/ leading_zeroes THEN "PFX" ELSE "PIFX", a.value)>>),
       IF pointer(a) /\ legible(a)
       THEN Then(ASSERT(fits(a), "too-big simple type"),
                 [out |-> IF a.value \in Mapped
                          THEN <<Tok(IF leading_zeroes THEN " => PFX" ELSE " => PIFX",
                                     ReadWord(a.value, a.size))>>
                          ELSE <<>>,
                  reads |-> <<SafeRead(a.value, a.size)>>,
                  end |-> "ok", msg |-> ""])
       ELSE Emit(<<>>))

is_null_never(a) == FALSE

\* if (arg->value == 0)
is_null(a) == a.value = 0

unwritten_never(a) == FALSE

\* else if (arg->pre && !TEST(DRSYS_PARAM_IN, arg->mode))
unwritten(a) == a.pre /\ ~TEST(DRSYS_PARAM_IN, a.mode)

\* the inner switch over the structured types
print_struct(a, m) ==
  CASE a.type = "DRSYS_TYPE_UNICODE_STRING" -> print_unicode_string(a.value, m)
    [] a.type = "DRSYS_TYPE_OBJECT_ATTRIBUTES" ->
         Then(Deref(a.value, <<Tok("len= root= name=", a.value)>>),
              Then(print_unicode_string(m, m),
                   Emit(<<Tok(", att= sd= sqos=", a.value)>>)))
    [] a.type = "DRSYS_TYPE_IO_STATUS_BLOCK" ->
         Deref(a.value, <<Tok("status= info=", a.value)>>)
    [] a.type = "DRSYS_TYPE_LARGE_INTEGER" ->
         Deref(a.value, <<Tok("0xHEX64", a.value)>>)
    [] OTHER -> Emit(<<Tok("<NYI>", 0)>>)

\* the default branch of the outer switch
print_default(a, m) ==
  IF is_null(a) THEN Emit(<<Tok("<null>", 0)>>)
  ELSE IF unwritten(a) THEN Emit(<<Tok("PFX", a.value)>>)
  ELSE print_struct(a, m)

annotation_no_retval(a) ==
  Tok("annot", <<IF a.arg_name = NULL THEN "" ELSE "name=",
                 IF a.arg_name = NULL THEN "" ELSE a.arg_name,
                 IF a.arg_name = NULL THEN "" ELSE ", ",
                 IF a.type_name = NULL THEN "\"\"" ELSE a.type_name,
                 IF a.type_name = NULL \/ TEST(DRSYS_PARAM_INLINED, a.mode)
                 THEN "" ELSE "*",
                 a.size>>)

\* the arguments of the final OUTPUT(" (%s%s%stype=%s%s, size="PIFX")\n", ...)
annotation(a) ==
  Tok("annot", <<IF a.arg_name = NULL THEN "" ELSE "name=",
                 IF a.arg_name = NULL THEN "" ELSE a.arg_name,
                 IF a.arg_name = NULL THEN "" ELSE ", ",
                 IF a.type_name = NULL THEN "\"\"" ELSE a.type_name,
                 IF a.type_name = NULL
                    \/ TESTANY({DRSYS_PARAM_INLINED, DRSYS_PARAM_RETVAL}, a.mode)
                 THEN "" ELSE "*",
                 a.size>>)

print_arg(a, m) ==
  Then(Emit(<<IF a.ordinal = -1 THEN Tok("retval", -1) ELSE Tok("arg", a.ordinal)>>),
       Then(IF a.type \in SimplePtrTypes THEN print_simple_value(a, TRUE)
            ELSE IF a.type \in SimpleIntTypes THEN print_simple_value(a, FALSE)
            ELSE print_default(a, m),
            Emit(<<annotation(a)>>)))

eligible_input_only(a) ==
  \/ (a.pre /\ TEST(DRSYS_PARAM_IN, a.mode) /\ ~TEST(DRSYS_PARAM_RETVAL, a.mode))
  \/ (~a.pre /\ TESTANY({DRSYS_PARAM_OUT, DRSYS_PARAM_RETVAL}, a.mode))

eligible_output_only(a) ==
  \/ (a.pre /\ ~TEST(DRSYS_PARAM_RETVAL, a.mode))
  \/ (~a.pre /\ TEST(DRSYS_PARAM_OUT, a.mode))

\* the condition under which drsys_iter_arg_cb calls print_arg
eligible(a) ==
  \/ (a.pre /\ ~TEST(DRSYS_PARAM_RETVAL, a.mode))
  \/ (~a.pre /\ TESTANY({DRSYS_PARAM_OUT, DRSYS_PARAM_RETVAL}, a.mode))

\* drsys_iter_arg_cb(arg, user_data)
drsys_iter_arg_cb(a, m) ==
  Then(ASSERT(a.valid, "no args should be invalid"),
       IF eligible(a) THEN print_arg(a, m) ELSE Emit(<<>>))

-----------------------------------------------------------------------------
(* One thread: the two handlers and the iteration they start *)

Threads == 1..NThreads

Statuses == {"DRMF_SUCCESS", "DRMF_ERROR_DETAILS_UNKNOWN", "DRMF_ERROR"}

\* the pointer field target memory may hold for r: us->Buffer of a
\* UNICODE_STRING, oa->ObjectName of an OBJECT_ATTRIBUTES; the other types
\* have none that is followed
PointerFields(r) ==
  IF r.type \in {"DRSYS_TYPE_UNICODE_STRING", "DRSYS_TYPE_OBJECT_ATTRIBUTES"}
  THEN Values ELSE {0}

WithPre(r, p) ==
  [ordinal |-> r.ordinal, type |-> r.type, mode |-> r.mode, value |-> r.value,
   size |-> r.size, arg_name |-> r.arg_name, type_name |-> r.type_name,
   valid |-> r.valid, pre |-> p]

InitMT ==
  /\ tstep = [t \in Threads |-> "start"]
  /\ tpre = [t \in Threads |-> TRUE]
  /\ tn = [t \in Threads |-> 0]
  /\ sink = <<>>

InitSeq ==
  /\ pc = "idle"
  /\ pre = TRUE
  /\ lookup = "none"
  /\ known = TRUE
  /\ hdr = Tok("none", "")
  /\ arg = NoArg
  /\ rendered = FALSE
  /\ line = <<>>
  /\ reads = <<>>
  /\ nvisited = 0
  /\ msg = ""
  /\ res = "none"

Init == InitSeq /\ InitMT

\* the handler stops in a failed ASSERT
Abort(why, m) ==
  /\ pc' = "aborted"
  /\ lookup' = why
  /\ msg' = m
  /\ UNCHANGED <<hdr, nvisited>>

\* the handler has printed its first line and calls drsys_iterate_args
StartIteration(h) ==
  /\ pc' = "iter"
  /\ lookup' = "ok"
  /\ hdr' = h
  /\ nvisited' = 0
  /\ msg' = ""

\* event_pre_syscall up to its call of drsys_iterate_args
event_pre_syscall(cur_ok, name_ok, known_ok, k) ==
  /\ pc = "idle"
  /\ pre' = TRUE
  /\ known' = k
  /\ res' = "none"
  /\ IF ~cur_ok THEN Abort("cur_failed", "drsys_cur_syscall failed")
     ELSE IF ~name_ok THEN Abort("name_failed", "drsys_syscall_name failed")
     ELSE IF ~known_ok THEN Abort("known_failed", "failed to find whether known")
     ELSE StartIteration(Tok("header", IF k THEN "" ELSE " (details not all known)"))
  /\ UNCHANGED <<arg, rendered, line, reads>>
  /\ UNCHANGED mtvars

\* event_post_syscall up to its call of drsys_iterate_args
event_post_syscall(cur_ok, succ_ok, success) ==
  /\ pc = "in_syscall"
  /\ pre' = FALSE
  /\ res' = "none"
  /\ IF ~cur_ok THEN Abort("cur_failed", "drsys_cur_syscall failed")
     ELSE IF ~succ_ok THEN Abort("succeeded_failed", "drsys_syscall_succeeded failed")
     ELSE StartIteration(Tok("outcome", IF success THEN "succeeded" ELSE "failed"))
  /\ UNCHANGED <<known, arg, rendered, line, reads>>
  /\ UNCHANGED mtvars

\* drsys_iterate_args hands record r of the current phase to drsys_iter_arg_cb
IterArgCb(r, m) ==
  /\ pc = "iter"
  /\ nvisited < MaxArgs
  /\ LET a == WithPre(r, pre)
         e == drsys_iter_arg_cb(a, m)
     IN /\ arg' = a
        /\ rendered' = (a.valid /\ eligible(a))
        /\ line' = e.out
        /\ reads' = e.reads
        /\ msg' = e.msg
        /\ pc' = CASE e.end = "ok" -> "cb"
                   [] e.end = "abort" -> "aborted"
                   [] OTHER -> "faulted"
  /\ nvisited' = nvisited + 1
  /\ UNCHANGED <<pre, lookup, known, hdr, res>>
  /\ UNCHANGED mtvars

\* return true: the iteration goes on, the record is gone
KeepGoing ==
  /\ pc = "cb"
  /\ pc' = "iter"
  /\ arg' = NoArg
  /\ rendered' = FALSE
  /\ line' = <<>>
  /\ reads' = <<>>
  /\ UNCHANGED <<pre, lookup, known, hdr, nvisited, msg, res>>
  /\ UNCHANGED mtvars

iterate_failed_strict(r) == r # "DRMF_SUCCESS"

\* res != DRMF_SUCCESS && res != DRMF_ERROR_DETAILS_UNKNOWN
iterate_failed(r) == r # "DRMF_SUCCESS" /\ r # "DRMF_ERROR_DETAILS_UNKNOWN"

\* drsys_iterate_args returns r and the handler checks it
IterateReturn(r) ==
  /\ pc = "iter"
  /\ res' = r
  /\ IF iterate_failed(r)
     THEN /\ pc' = "aborted"
          /\ msg' = IF pre THEN "drsys_iterate_args failed pre-syscall"
                    ELSE "drsys_iterate_args failed post-syscall"
     ELSE /\ pc' = IF pre THEN "in_syscall" ELSE "idle"
          /\ msg' = msg
  /\ UNCHANGED <<pre, lookup, known, hdr, arg, rendered, line, reads, nvisited>>
  /\ UNCHANGED mtvars

\* drsys_iterate_args visits the next record the service has for the call
Deliver ==
  /\ pc = "iter"
  /\ \E r \in ArgRecords : \E m \in PointerFields(r) : IterArgCb(r, m)

Next ==
  \/ \E c, n, ko, k \in BOOLEAN : event_pre_syscall(c, n, ko, k)
  \/ \E c, so, su \in BOOLEAN : event_post_syscall(c, so, su)
  \/ Deliver
  \/ KeepGoing
  \/ \E r \in Statuses : IterateReturn(r)

Spec == Init /\ [][Next]_vars

-----------------------------------------------------------------------------
(* Several threads, one dr_fprintf call per step.  Each thread runs one    *)
(* call: its entry handler, then its exit handler.  The sink records which *)
(* thread and phase each write belongs to.                                 *)

Write(t, k) == sink' = Append(sink, [t |-> t, pre |-> tpre[t], k |-> k])

\* OUTPUT("%s%s\n", name, ...) of event_pre_syscall, or
\* OUTPUT("    %s =>\n", ...) of event_post_syscall
MT_Header(t) ==
  /\ tstep[t] = "start"
  /\ Len(sink) < MaxSink
  /\ Write(t, "header")
  /\ tstep' = [tstep EXCEPT ![t] = "iter"]
  /\ UNCHANGED <<tpre, tn>>
  /\ UNCHANGED seqvars

\* the callback runs for an eligible record: print_arg writes the label
MT_Label(t) ==
  /\ tstep[t] = "iter"
  /\ tn[t] < MaxArgs
  /\ Len(sink) < MaxSink
  /\ Write(t, "label")
  /\ tstep' = [tstep EXCEPT ![t] = "value"]
  /\ UNCHANGED <<tpre, tn>>
  /\ UNCHANGED seqvars

\* the first OUTPUT of the value
MT_Value(t) ==
  /\ tstep[t] = "value"
  /\ Len(sink) < MaxSink
  /\ Write(t, "value")
  /\ tstep' = [tstep EXCEPT ![t] = "more"]
  /\ UNCHANGED <<tpre, tn>>
  /\ UNCHANGED seqvars

\* a further OUTPUT of the value: the dereferenced word, the rest of a structure
MT_More(t) ==
  /\ tstep[t] = "more"
  /\ Len(sink) < MaxSink
  /\ Write(t, "value")
  /\ tstep' = [tstep EXCEPT ![t] = "annot"]
  /\ UNCHANGED <<tpre, tn>>
  /\ UNCHANGED seqvars

\* the OUTPUT of the annotation, which ends the line; the callback returns
MT_Annot(t) ==
  /\ tstep[t] \in {"more", "annot"}
  /\ Len(sink) < MaxSink
  /\ Write(t, "annot")
  /\ tstep' = [tstep EXCEPT ![t] = "iter"]
  /\ tn' = [tn EXCEPT ![t] = tn[t] + 1]
  /\ UNCHANGED tpre
  /\ UNCHANGED seqvars

\* drsys_iterate_args returns and so does the handler
MT_Return(t) ==
  /\ tstep[t] = "iter"
  /\ tstep' = [tstep EXCEPT ![t] = IF tpre[t] THEN "start" ELSE "done"]
  /\ tpre' = [tpre EXCEPT ![t] = FALSE]
  /\ tn' = [tn EXCEPT ![t] = 0]
  /\ UNCHANGED sink
  /\ UNCHANGED seqvars

NextMT ==
  \/ \E t \in Threads : MT_Header(t)
  \/ \E t \in Threads : MT_Label(t)
  \/ \E t \in Threads : MT_Value(t)
  \/ \E t \in Threads : MT_More(t)
  \/ \E t \in Threads : MT_Annot(t)
  \/ \E t \in Threads : MT_Return(t)

SpecMT == Init /\ [][NextMT]_vars

-----------------------------------------------------------------------------
(* Properties *)

\* the callback has run for arg and arg is still at hand
Visited == arg.type # "none"

HasTok(k) == \E i \in 1..Len(line) : line[i].k = k

AnnotToks == {i \in 1..Len(line) : line[i].k = "annot"}

DerefToks == {i \in 1..Len(line) : line[i].k \in {" => PFX", " => PIFX"}}

IsIn == DRSYS_PARAM_IN \in arg.mode

IsOut == DRSYS_PARAM_OUT \in arg.mode

IsRetval == DRSYS_PARAM_RETVAL \in arg.mode

IsInlined == DRSYS_PARAM_INLINED \in arg.mode

\* input pointer at entry, output pointer at exit
LegibleNow == (arg.pre /\ IsIn) \/ (~arg.pre /\ IsOut)

\* C1 as claimed: at entry a record is rendered iff it has the input flag and
\* is not the return-value slot.
C1_EntryInputOnly ==
  (Visited /\ arg.valid /\ arg.pre) => (rendered <=> (IsIn /\ ~IsRetval))

\* C1 as amended: at entry a valid record is rendered (print_arg is called and
\* writes its line) iff it is not the return-value slot, whatever its
\* direction; the return-value record is never rendered at entry.
C1_EntryNotRetval ==
  (Visited /\ arg.valid /\ arg.pre) =>
     /\ rendered <=> ~IsRetval
     /\ rendered <=> (line # <<>>)

\* an output-only record is rendered at entry
C1_Witness ==
  /\ pc = "cb" /\ arg.pre /\ rendered
  /\ arg.mode = {DRSYS_PARAM_OUT}
  /\ HasTok("annot")

\* C2: at exit a valid record is rendered iff it has the output flag or is the
\* return-value slot; an input-only record is never rendered at exit.
C2_ExitOutputOrRetval ==
  (Visited /\ arg.valid /\ ~arg.pre) =>
     /\ rendered <=> (IsOut \/ IsRetval)
     /\ rendered <=> (line # <<>>)

\* the return-value record, which has no output flag, is rendered at exit
C2_Witness ==
  /\ pc = "cb" /\ ~arg.pre /\ rendered
  /\ IsRetval /\ ~IsOut
  /\ line[1].k = "retval"

\* C3 as claimed: the writes of one phase of one call are contiguous in the
\* sink: no write of another thread lies between two of them.
C3_PhaseContiguous ==
  \A i, k \in 1..Len(sink) :
     (i < k /\ sink[i].t = sink[k].t /\ sink[i].pre = sink[k].pre) =>
        \A j \in i..k : sink[j].t = sink[i].t

\* C4 as claimed: a rendered record (whose decoding returns) causes a read of
\* target memory iff its inlined flag is clear.
C4_ReadIffPointer ==
  (rendered /\ pc = "cb") => ((reads # <<>>) <=> ~IsInlined)

\* C4 as amended: a rendered record of a simple type causes a read (a safe
\* read) iff its inlined flag is clear, the pointer is legible in the phase and
\* the size fits a machine word; an inlined record of a simple type causes
\* none.  A record of a structured type is dereferenced iff its value is not
\* null and it is not an entry-phase record without the input flag, whatever
\* its inlined flag.  A record of any other type causes no read.
C4_ReadIffLegiblePointer ==
  /\ ~rendered => reads = <<>>
  /\ (rendered /\ arg.type \in SimpleTypes) =>
        /\ (reads # <<>>) <=> (~IsInlined /\ LegibleNow /\ arg.size <= sizeof_deref)
        /\ \A i \in 1..Len(reads) : reads[i].kind = "safe"
  /\ (rendered /\ arg.type \in StructTypes) =>
        /\ (reads # <<>>) <=> (arg.value # 0 /\ ~(arg.pre /\ ~IsIn))
        /\ \A i \in 1..Len(reads) : reads[i].kind = "direct"
  /\ (rendered /\ arg.type \in OtherTypes) => reads = <<>>

\* a pointer to a simple value that is output-only is rendered at entry
\* without any read
C4_Witness ==
  /\ pc = "cb" /\ rendered /\ arg.pre
  /\ arg.type \in SimpleTypes /\ ~IsInlined /\ ~IsIn
  /\ arg.value \in Mapped
  /\ reads = <<>>

\* C5 as claimed: a rendered pointer record with the null address gets the
\* null placeholder and no read at all.
C5_NullNoRead ==
  (rendered /\ ~IsInlined /\ arg.value = 0) => (HasTok("<null>") /\ reads = <<>>)

\* C5 as amended: a rendered record of a structured or unimplemented type whose
\* value is null gets the null placeholder and no read.  A rendered record of a
\* simple type whose value is null gets the zero address, never the
\* placeholder; when it is a legible pointer it gets one safe read at address
\* 0, which yields nothing.
C5_NullByType ==
  (rendered /\ arg.value = 0) =>
     IF arg.type \in SimpleTypes
     THEN /\ line[2].k \in {"PFX", "PIFX"} /\ line[2].v = 0
          /\ ~HasTok("<null>")
          /\ DerefToks = {}
          /\ \A i \in 1..Len(reads) : reads[i].kind = "safe" /\ reads[i].addr = 0
          /\ (~IsInlined /\ LegibleNow /\ arg.size <= sizeof_deref) => Len(reads) = 1
     ELSE /\ pc = "cb"
          /\ line[2].k = "<null>"
          /\ reads = <<>>

\* a null pointer to a structure gets the placeholder
C5_Witness ==
  /\ pc = "cb" /\ rendered /\ ~IsInlined /\ arg.value = 0
  /\ arg.type \in StructTypes
  /\ ~arg.pre /\ IsOut
  /\ line[2].k = "<null>"

\* C6 as claimed: a rendered pointer record whose value is a non-null address
\* that cannot be read (and whose size fits a word) never stops the process:
\* the address is printed, no dereferenced value follows, the annotation is
\* written and the iteration goes on.
C6_UnreadableNeverFaults ==
  (rendered /\ ~IsInlined /\ arg.value # 0 /\ arg.value \notin Mapped
     /\ arg.size <= sizeof_deref) =>
     /\ pc = "cb"
     /\ DerefToks = {}
     /\ Cardinality(AnnotToks) = 1

\* C7 as claimed: a rendered record of an unimplemented type always gets the
\* not-yet-implemented placeholder, no read, no abort, and its annotation.
C7_AlwaysNYI ==
  (rendered /\ arg.type \in OtherTypes) =>
     /\ pc = "cb"
     /\ line[2].k = "<NYI>"
     /\ reads = <<>>
     /\ Cardinality(AnnotToks) = 1

\* C7 as amended: a rendered record of an unimplemented type gets the null
\* placeholder when its value is null, else its raw address when it is an
\* entry-phase record without the input flag, else the not-yet-implemented
\* placeholder; in all three cases no read, no abort, and its annotation.
C7_NYIUnlessNullOrUnwritten ==
  (rendered /\ arg.type \in OtherTypes) =>
     /\ pc = "cb"
     /\ Len(line) = 3
     /\ line[2].k = (IF arg.value = 0 THEN "<null>"
                     ELSE IF arg.pre /\ ~IsIn THEN "PFX" ELSE "<NYI>")
     /\ reads = <<>>
     /\ line[3].k = "annot"

\* the placeholder is printed for a non-null legible record
C7_Witness ==
  /\ pc = "cb" /\ rendered /\ arg.type \in OtherTypes
  /\ arg.value # 0
  /\ line[2].k = "<NYI>"

\* C8: the handler aborts when a visited record is invalid, when a lookup
\* fails, or when the iteration returns something other than success or
\* details-unknown, and for no other reason than these and the too-big
\* assertion; it does not abort on details-unknown nor on a call that is not
\* known, whose header carries the suffix and whose records go through the
\* eligibility rule.
C8_AbortPolicy ==
  /\ (Visited /\ ~arg.valid) => (pc = "aborted" /\ ~rendered /\ line = <<>>)
  /\ lookup \in {"cur_failed", "name_failed", "known_failed", "succeeded_failed"}
        => pc = "aborted"
  /\ res \notin {"none", "DRMF_SUCCESS", "DRMF_ERROR_DETAILS_UNKNOWN"} => pc = "aborted"
  /\ res \in {"DRMF_SUCCESS", "DRMF_ERROR_DETAILS_UNKNOWN"} => pc \in {"in_syscall", "idle"}
  /\ pc = "aborted" =>
        \/ lookup # "ok"
        \/ res = "DRMF_ERROR"
        \/ (Visited /\ ~arg.valid)
        \/ (rendered /\ arg.type \in SimpleTypes /\ arg.size > sizeof_deref)
  /\ (lookup = "ok" /\ pre) =>
        /\ hdr.k = "header"
        /\ hdr.v = (IF known THEN "" ELSE " (details not all known)")
  /\ (lookup = "ok" /\ ~pre) => hdr.k = "outcome"
  /\ (Visited /\ arg.valid /\ ~known) =>
        (rendered <=> IF arg.pre THEN ~IsRetval ELSE (IsOut \/ IsRetval))

\* a call that is not known, whose records were visited and whose iteration
\* returned details-unknown, goes on to the system call
C8_Witness ==
  /\ pc = "in_syscall" /\ ~known
  /\ res = "DRMF_ERROR_DETAILS_UNKNOWN"
  /\ nvisited > 0
  /\ hdr.v = " (details not all known)"

\* the annotation as (arg_name, type_name, mode, size) determine it
ExpectedAnnot(n, tn_, mode, size) ==
  <<IF n = NULL THEN "" ELSE "name=",
    IF n = NULL THEN "" ELSE n,
    IF n = NULL THEN "" ELSE ", ",
    IF tn_ = NULL THEN "\"\"" ELSE tn_,
    IF tn_ # NULL /\ DRSYS_PARAM_INLINED \notin mode /\ DRSYS_PARAM_RETVAL \notin mode
    THEN "*" ELSE "",
    size>>

AnnotDetermined ==
  \A i \in AnnotToks :
     line[i].v = ExpectedAnnot(arg.arg_name, arg.type_name, arg.mode, arg.size)

C10_SafeReadFitsWord ==
  /\ \A i \in 1..Len(reads) :
        reads[i].kind = "safe" =>
           /\ reads[i].len = arg.size
           /\ reads[i].addr = arg.value
           /\ reads[i].len <= sizeof_deref
  /\ (rendered /\ arg.type \in SimpleTypes /\ ~IsInlined /\ LegibleNow
        /\ arg.size > sizeof_deref) =>
        /\ pc = "aborted"
        /\ msg = "too-big simple type"
        /\ reads = <<>>
        /\ AnnotToks = {}

\* the assertion stops a too-wide read
C10_Witness ==
  /\ pc = "aborted" /\ msg = "too-big simple type"
  /\ rendered /\ arg.size > sizeof_deref
  /\ reads = <<>>

====
